---- MODULE Spec2Model ----
(***************************************************************************)
(* The bidding scheduler of electron_main.js (main process): the session   *)
(* registry browserMap, the pending list bidTimeouts, the handlers         *)
(* fetch-auctions-data / stop-update / close-all-windows / save-auctions,  *)
(* and handleUserBids / ensureLoggedIn / placeBid.                         *)
(*                                                                         *)
(* One action is one run of the event loop between two suspension points   *)
(* (an await on a remote interaction, a timer, an IPC request).  An await  *)
(* on a value that is already settled resumes in the microtask queue,      *)
(* before any timer or IPC request; its continuation touches no state the  *)
(* synchronous code after it reads, so it is part of the same action.      *)
(*                                                                         *)
(* Time is counted in whole hours.  setTimeout keeps a delay only when it  *)
(* lies in 1 .. 2^31-1 ms; 2^31-1 ms is 596 h 31 min, so a delay of whole  *)
(* hours is kept exactly when it is at most 596.                           *)
(***************************************************************************)
EXTENDS Integers, Sequences, FiniteSets, TLC

(* ------------------------------ bounds --------------------------------- *)
MaxNow == 1      \* the clock runs from hour 0 to this hour
MaxEvents == 2   \* IPC requests plus failing remote interactions in one behaviour
MaxTimers == 2   \* timers armed or running their callback at one time
MaxBrowsers == 2 \* puppeteer.launch calls that succeed in one behaviour
MaxRefLen == 3   \* length of the generated auction references (idAuction)

(* ------------------------- platform constant --------------------------- *)
TimeoutMaxHours == 596

VARIABLES
  now,          \* Date.now(), in hours
  data,         \* credentials.json: [credentials, auctions]
  browserMap,   \* the registry, in insertion order: <<[username, browser, isLoggedIn]>>
  browsers,     \* every browser puppeteer.launch returned: <<[username, open]>>
  bidTimeouts,  \* the pending list: <<[timeoutId, auctionId, username]>>
  timers,       \* the timers setTimeout created, indexed by timeoutId
  passes,       \* the fetch-auctions-data invocations
  closers,      \* the close-all-windows invocations
  events,       \* IPC requests and failed remote interactions so far
  cancelled,    \* ids of the auctions whose live timer the last stop-update cleared,
                \* emptied when fetch-auctions-data is invoked again
  idAuction,        \* auction.idAuction of the placeBid whose selector is derived,
  placeBidSelector  \* and that selector, both as sequences of characters; only
                    \* SpecInputId gives them values other than <<>>

vars == <<now, data, browserMap, browsers, bidTimeouts, timers, passes, closers,
          events, cancelled, idAuction, placeBidSelector>>

(* --------------------------- value domains ----------------------------- *)
Usernames == {"u1", "u2"}
AuctionIds == {1, 2}

(* parseFloat(a.bidProxy): a number, or NaN *)
parseFloat(s) ==
  CASE s = "5" -> [nan |-> FALSE, val |-> 5]
    [] s = "0" -> [nan |-> FALSE, val |-> 0]
    [] OTHER -> [nan |-> TRUE, val |-> 0]

(* new Date(auction.timeToBid): the hour it names, or Invalid Date *)
newDate(s) ==
  CASE s = "h0" -> [nan |-> FALSE, val |-> 0]
    [] s = "h1" -> [nan |-> FALSE, val |-> 1]
    [] s = "h2" -> [nan |-> FALSE, val |-> 2]
    [] s = "far" -> [nan |-> FALSE, val |-> 1000]
    [] OTHER -> [nan |-> TRUE, val |-> 0]

(* new Date().toLocaleString() *)
nowStr == ToString(now)

(* a.bidProxy passes the filter of handleUserBids *)
Eligible(a) == ~parseFloat(a.bidProxy).nan /\ parseFloat(a.bidProxy).val > 0

(* setTimeout(cb, diff): the delay Node keeps *)
TimerDelay(diff) ==
  IF ~diff.nan /\ diff.val >= 1 /\ diff.val <= TimeoutMaxHours THEN diff.val ELSE 0

(* ------------------------------ helpers -------------------------------- *)
Indexes(s) == [j \in 1..Len(s) |-> j]

(* the timers that are armed or whose callback is running *)
Pending(tm) == { t \in DOMAIN tm : tm[t].state \in {"armed", "running"} }

HasEntry(map, u) == \E j \in DOMAIN map : map[j].username = u
EntryIdx(map, u) == CHOOSE j \in DOMAIN map : map[j].username = u
Entry(map, u) == map[EntryIdx(map, u)]


(* ----------------------------- placeBid -------------------------------- *)
(* line 164: strings are sequences of one-character strings; the suffix is  *)
(* kept as one element.                                                     *)
toUpperCaseChar(c) ==
  CASE c = "a" -> "A" [] c = "b" -> "B" [] c = "c" -> "C"
    [] c = "g" -> "G" [] c = "s" -> "S" [] c = "t" -> "T"
    [] OTHER -> c

toUpperCase(str) == [j \in 1..Len(str) |-> toUpperCaseChar(str[j])]

(* variant of replaceSlashes: replace('/', '') without the g flag, which    *)
(* removes the first separator only                                         *)
replaceFirstSlash(str) ==
  IF \E j \in DOMAIN str : str[j] = "/"
  THEN LET first == CHOOSE j \in DOMAIN str :
                      str[j] = "/" /\ \A h \in 1..(j - 1) : str[h] # "/"
       IN SubSeq(str, 1, first - 1) \o SubSeq(str, first + 1, Len(str))
  ELSE str

(* .replace(/\//g, '') *)
replaceSlashes(str) == SelectSeq(str, LAMBDA c : c # "/")

(* auction.idAuction.toUpperCase().replace(/\//g, '') + '-place-bid-input' *)
inputId(ref) == replaceSlashes(toUpperCase(ref)) \o <<"-place-bid-input">>

(* variant of MarkStored: the collection written back is the one read when *)
(* the bid started, so the outcome of every other auction is lost           *)
MarkStoredWhole(auctions, id) ==
  [j \in DOMAIN auctions |->
     [auctions[j] EXCEPT !.bidPlaced = IF auctions[j].id = id THEN nowStr ELSE ""]]

(* lines 184-192: the outcome write of a placeBid that reached its end.     *)
MarkStored(auctions, id) ==
  IF \E j \in DOMAIN auctions : auctions[j].id = id
  THEN LET idx == CHOOSE j \in DOMAIN auctions :
                    /\ auctions[j].id = id
                    /\ \A h \in DOMAIN auctions : auctions[h].id = id => j <= h
       IN [auctions EXCEPT ![idx].bidPlaced = nowStr]
  ELSE auctions

(* --------------------------- handleUserBids ---------------------------- *)
(* variant of BidLoop: the placeBid of line 231 started but not awaited,    *)
(* so the loop goes on to the next auction at once                          *)
RECURSIVE BidLoopNoAwait(_, _, _, _, _, _)
BidLoopNoAwait(tm, bt, loaded, task, i, p) ==
  IF i > Len(task.aucs)
  THEN [timers |-> tm, bidTimeouts |-> bt, task |-> [task EXCEPT !.i = i, !.pc = "done"]]
  ELSE LET auction == loaded[task.aucs[i]]
           targetTime == newDate(auction.timeToBid)
           diff == [nan |-> targetTime.nan, val |-> targetTime.val - now]
       IN IF auction.timeToBid = "" \/ (~diff.nan /\ diff.val <= 0)
          THEN BidLoopNoAwait(tm, bt, loaded, task, i + 1, p)
          ELSE BidLoopNoAwait(
                 Append(tm, [pass |-> p, idx |-> task.aucs[i], page |-> task.page,
                             username |-> task.username,
                             fireAt |-> now + TimerDelay(diff), state |-> "armed"]),
                 Append(bt, [timeoutId |-> Len(tm) + 1, auctionId |-> auction.id,
                             username |-> task.username]),
                 loaded, task, i + 1, p)

(* variant of BidLoop: an auction without a time ends the loop (return for *)
(* continue at line 222)                                                    *)
RECURSIVE BidLoopStopAtEmpty(_, _, _, _, _, _)
BidLoopStopAtEmpty(tm, bt, loaded, task, i, p) ==
  IF i > Len(task.aucs)
  THEN [timers |-> tm, bidTimeouts |-> bt, task |-> [task EXCEPT !.i = i, !.pc = "done"]]
  ELSE LET auction == loaded[task.aucs[i]]
           targetTime == newDate(auction.timeToBid)
           diff == [nan |-> targetTime.nan, val |-> targetTime.val - now]
       IN IF auction.timeToBid = ""
          THEN [timers |-> tm, bidTimeouts |-> bt,
                task |-> [task EXCEPT !.i = Len(task.aucs) + 1, !.pc = "done"]]
          ELSE IF ~diff.nan /\ diff.val <= 0
          THEN [timers |-> tm, bidTimeouts |-> bt,
                task |-> [task EXCEPT !.i = i, !.pc = "bid"]]
          ELSE BidLoopStopAtEmpty(
                 Append(tm, [pass |-> p, idx |-> task.aucs[i], page |-> task.page,
                             username |-> task.username,
                             fireAt |-> now + TimerDelay(diff), state |-> "armed"]),
                 Append(bt, [timeoutId |-> Len(tm) + 1, auctionId |-> auction.id,
                             username |-> task.username]),
                 loaded, task, i + 1, p)

(* lines 218-239: the for loop from auctionsToBid[i] on, up to the first    *)
(* placeBid it awaits (pc "bid") or to its end (pc "done").                 *)
RECURSIVE BidLoop(_, _, _, _, _, _)
BidLoop(tm, bt, loaded, task, i, p) ==
  IF i > Len(task.aucs)
  THEN [timers |-> tm, bidTimeouts |-> bt, task |-> [task EXCEPT !.i = i, !.pc = "done"]]
  ELSE LET auction == loaded[task.aucs[i]]
           targetTime == newDate(auction.timeToBid)
           diff == [nan |-> targetTime.nan, val |-> targetTime.val - now]
       IN IF auction.timeToBid = ""
          THEN BidLoop(tm, bt, loaded, task, i + 1, p)
          ELSE IF ~diff.nan /\ diff.val <= 0
          THEN [timers |-> tm, bidTimeouts |-> bt,
                task |-> [task EXCEPT !.i = i, !.pc = "bid"]]
          ELSE BidLoop(
                 Append(tm, [pass |-> p, idx |-> task.aucs[i], page |-> task.page,
                             username |-> task.username,
                             fireAt |-> now + TimerDelay(diff), state |-> "armed"]),
                 Append(bt, [timeoutId |-> Len(tm) + 1, auctionId |-> auction.id,
                             username |-> task.username]),
                 loaded, task, i + 1, p)

(* variant of LoginThenLoop: ensureLoggedIn without the isLoggedIn test of  *)
(* line 128                                                                 *)
LoginThenLoopAlways(tm, bt, map, loaded, task, p) ==
  [timers |-> tm, bidTimeouts |-> bt,
   task |-> [task EXCEPT !.page = Entry(map, task.username).browser, !.pc = "login"]]

(* lines 213-216: read the page of the registered session, ensureLoggedIn   *)
(* (lines 128-131: return at once when isLoggedIn), then the loop.          *)
LoginThenLoop(tm, bt, map, loaded, task, p) ==
  LET entry == Entry(map, task.username)
      t1 == [task EXCEPT !.page = entry.browser]
  IN IF entry.isLoggedIn
     THEN BidLoop(tm, bt, loaded, [t1 EXCEPT !.loginSkipped = TRUE], 1, p)
     ELSE [timers |-> tm, bidTimeouts |-> bt, task |-> [t1 EXCEPT !.pc = "login"]]

(* variant of HandleUserBidsFilter: the filter of line 199 with >= for >    *)
HandleUserBidsFilterGe(loaded, userAuctions) ==
  SelectSeq(userAuctions, LAMBDA j : ~parseFloat(loaded[j].bidProxy).nan
                                      /\ parseFloat(loaded[j].bidProxy).val >= 0)

(* variant of HandleUserBidsFilter: an auction with an outcome timestamp is *)
(* left out                                                                 *)
HandleUserBidsFilterUnplaced(loaded, userAuctions) ==
  SelectSeq(userAuctions, LAMBDA j : Eligible(loaded[j]) /\ loaded[j].bidPlaced = "")

(* line 199: auctionsToBid, as indexes into the loaded collection *)
HandleUserBidsFilter(loaded, userAuctions) ==
  SelectSeq(userAuctions, LAMBDA j : Eligible(loaded[j]))

(* lines 197-216: handleUserBids up to its first suspension *)
HandleUserBids(tm, bt, map, loaded, username, userAuctions, p) ==
  LET auctionsToBid == HandleUserBidsFilter(loaded, userAuctions)
      task == [username |-> username, aucs |-> auctionsToBid, i |-> 1, pc |-> "done",
               page |-> 0, loginSkipped |-> FALSE]
  IN IF auctionsToBid = <<>>
     THEN [timers |-> tm, bidTimeouts |-> bt, task |-> task]
     ELSE IF ~HasEntry(map, username)
     THEN [timers |-> tm, bidTimeouts |-> bt, task |-> [task EXCEPT !.pc = "launch"]]
     ELSE LoginThenLoop(tm, bt, map, loaded, task, p)

(* lines 282-295: group by account and start one task per credential *)
RECURSIVE StartTasks(_, _, _, _, _, _, _)
StartTasks(credentials, c, tm, bt, tasks, loaded, p) ==
  IF c > Len(credentials)
  THEN [timers |-> tm, bidTimeouts |-> bt, tasks |-> tasks]
  ELSE LET username == credentials[c].username
           userAuctions == SelectSeq(Indexes(loaded),
                             LAMBDA j : loaded[j].account # "" /\ loaded[j].account = username)
       IN IF userAuctions = <<>>
          THEN StartTasks(credentials, c + 1, tm, bt, tasks, loaded, p)
          ELSE LET r == HandleUserBids(tm, bt, browserMap, loaded, username, userAuctions, p)
               IN StartTasks(credentials, c + 1, r.timers, r.bidTimeouts,
                             Append(tasks, r.task), loaded, p)

(* line 296: await Promise.all(tasks) settles when one task has rejected or *)
(* all have fulfilled; line 297 returns the collection.                     *)
PassStatus(status, tasks) ==
  IF status # "running" THEN status
  ELSE IF \E k \in DOMAIN tasks : tasks[k].pc = "failed" THEN "rejected"
  ELSE IF \A k \in DOMAIN tasks : tasks[k].pc = "done" THEN "returned"
  ELSE "running"

(* variant of ClearTimers: clearing also aborts a callback that is running *)
ClearTimersAbort(tm, bt) ==
  [t \in DOMAIN tm |->
     IF tm[t].state \in {"armed", "running"} /\ \E j \in DOMAIN bt : bt[j].timeoutId = t
     THEN [tm[t] EXCEPT !.state = "cleared"] ELSE tm[t]]

(* clearTimeout on every entry of bidTimeouts (lines 271-273, 303-305) *)
ClearTimers(tm, bt) ==
  [t \in DOMAIN tm |->
     IF tm[t].state = "armed" /\ \E j \in DOMAIN bt : bt[j].timeoutId = t
     THEN [tm[t] EXCEPT !.state = "cleared"] ELSE tm[t]]

(* line 211: browserMap[username] = { browser, page, isLoggedIn: false } *)
RegisterSession(map, username, b) ==
  IF HasEntry(map, username)
  THEN [map EXCEPT ![EntryIdx(map, username)] =
          [username |-> username, browser |-> b, isLoggedIn |-> FALSE]]
  ELSE Append(map, [username |-> username, browser |-> b, isLoggedIn |-> FALSE])

(* line 149: browserMap[username].isLoggedIn = true; a TypeError when the   *)
(* entry is gone, which the catch of line 150 swallows.                     *)
MarkLoggedIn(map, username) ==
  IF HasEntry(map, username)
  THEN [map EXCEPT ![EntryIdx(map, username)].isLoggedIn = TRUE]
  ELSE map

(* ------------------------------ initial state --------------------------- *)
InitCredentials ==
  { <<[username |-> "u1"], [username |-> "u2"]>>,
    <<[username |-> "u1"], [username |-> "u1"]>> }

InitAuctions ==
  { <<a1, a2>> :
      a1 \in [id : {1}, account : {"u1"}, bidProxy : {"0", "5"},
              timeToBid : {"h1", "far"}, bidPlaced : {""}],
      a2 \in [id : {2}, account : Usernames, bidProxy : {"abc", "5"},
              timeToBid : {"", "h0", "h1"}, bidPlaced : {""}] }

Init ==
  /\ now = 0
  /\ data \in [credentials : InitCredentials, auctions : InitAuctions]
  /\ browserMap = <<>>
  /\ browsers = <<>>
  /\ bidTimeouts = <<>>
  /\ timers = <<>>
  /\ passes = <<>>
  /\ closers = <<>>
  /\ events = 0
  /\ cancelled = {}
  /\ idAuction = <<>>
  /\ placeBidSelector = <<>>

(* ---------------------- remote interactions ---------------------------- *)
(* variant of Settles: interactions also succeed on a closed browser *)
SettlesAlways(ok, b) ==
  IF ok THEN events' = events
  ELSE IF browsers[b].open THEN events < MaxEvents /\ events' = events + 1
  ELSE events' = events

(* A sequence of interactions with the page of browser b settles with       *)
(* success only while b is open; on a closed browser it fails; on an open   *)
(* one a failure (selector missing, timeout, navigation error) is an event. *)
Settles(ok, b) ==
  IF ok THEN browsers[b].open /\ events' = events
  ELSE IF browsers[b].open THEN events < MaxEvents /\ events' = events + 1
  ELSE events' = events

(* ------------------------- fetch-auctions-data -------------------------- *)
(* lines 269-298, up to the await of line 296 *)
ScheduleAll ==
  /\ events < MaxEvents
  /\ events' = events + 1
  /\ LET p == Len(passes) + 1
         cleared == ClearTimers(timers, bidTimeouts)
         loaded == data.auctions
         r == IF data.credentials = <<>> \/ loaded = <<>>
              THEN [timers |-> cleared, bidTimeouts |-> <<>>, tasks |-> <<>>]
              ELSE StartTasks(data.credentials, 1, cleared, <<>>, <<>>, loaded, p)
     IN /\ Cardinality(Pending(r.timers)) <= MaxTimers
        /\ timers' = r.timers
        /\ bidTimeouts' = r.bidTimeouts
        /\ passes' = Append(passes,
             [status |-> PassStatus("running", r.tasks), loaded |-> loaded,
              tasks |-> r.tasks,
              \* no earlier invocation still has a task in flight
              alone |-> \A q \in DOMAIN passes : \A k \in DOMAIN passes[q].tasks :
                          passes[q].tasks[k].pc \in {"done", "failed"}])
  /\ cancelled' = {}
  /\ UNCHANGED <<idAuction, placeBidSelector, now, data, browserMap, browsers, closers>>

(* the task k of pass p rejects *)
TaskRejects(p, k) ==
  LET tasks == [passes[p].tasks EXCEPT ![k].pc = "failed"]
  IN passes' = [passes EXCEPT ![p].tasks = tasks, ![p].status = PassStatus(@, tasks)]

(* lines 209-216: puppeteer.launch and newPage settle *)
LaunchDone(p, k, outcome) ==
  LET task == passes[p].tasks[k]
      b == Len(browsers) + 1
  IN /\ task.pc = "launch"
     /\ CASE outcome = "launchFail" ->
               /\ events < MaxEvents /\ events' = events + 1
               /\ TaskRejects(p, k)
               /\ UNCHANGED <<browsers, browserMap>>
          [] outcome = "pageFail" ->
               /\ events < MaxEvents /\ events' = events + 1
               /\ Len(browsers) < MaxBrowsers
               /\ browsers' = Append(browsers, [username |-> task.username, open |-> TRUE])
               /\ TaskRejects(p, k)
               /\ UNCHANGED browserMap
          [] OTHER ->
               LET map == RegisterSession(browserMap, task.username, b)
                   r == LoginThenLoop(timers, bidTimeouts, map, passes[p].loaded, task, p)
               IN /\ Len(browsers) < MaxBrowsers
                  /\ browsers' = Append(browsers, [username |-> task.username, open |-> TRUE])
                  /\ browserMap' = map
                  /\ passes' = [passes EXCEPT ![p].tasks[k] = r.task]
                  /\ events' = events
     /\ UNCHANGED <<idAuction, placeBidSelector, now, data, bidTimeouts, timers, closers, cancelled>>

(* variant of LoginDone: ensureLoggedIn without its try/catch, so that a    *)
(* failed login rejects the task                                            *)
LoginDoneThrows(p, k, ok) ==
  LET task == passes[p].tasks[k]
      r == BidLoop(timers, bidTimeouts, passes[p].loaded, task, 1, p)
      tasks == [passes[p].tasks EXCEPT ![k] = r.task]
  IN /\ task.pc = "login"
     /\ Settles(ok, task.page)
     /\ IF ok
        THEN /\ Cardinality(Pending(r.timers)) <= MaxTimers
             /\ browserMap' = MarkLoggedIn(browserMap, task.username)
             /\ timers' = r.timers
             /\ bidTimeouts' = r.bidTimeouts
             /\ passes' = [passes EXCEPT ![p].tasks = tasks,
                                         ![p].status = PassStatus(@, tasks)]
        ELSE /\ TaskRejects(p, k)
             /\ UNCHANGED <<browserMap, timers, bidTimeouts>>
     /\ UNCHANGED <<idAuction, placeBidSelector, now, data, browsers, closers, cancelled>>

(* lines 132-153 settle, then the loop of lines 218-239 *)
LoginDone(p, k, ok) ==
  LET task == passes[p].tasks[k]
      r == BidLoop(timers, bidTimeouts, passes[p].loaded, task, 1, p)
      tasks == [passes[p].tasks EXCEPT ![k] = r.task]
  IN /\ task.pc = "login"
     /\ Settles(ok, task.page)
     /\ Cardinality(Pending(r.timers)) <= MaxTimers
     /\ browserMap' = IF ok THEN MarkLoggedIn(browserMap, task.username) ELSE browserMap
     /\ timers' = r.timers
     /\ bidTimeouts' = r.bidTimeouts
     /\ passes' = [passes EXCEPT ![p].tasks = tasks, ![p].status = PassStatus(@, tasks)]
     /\ UNCHANGED <<idAuction, placeBidSelector, now, data, browsers, closers, cancelled>>

(* variant of BidDone: the outcome write of lines 185-192 moved out of the  *)
(* try, so that it also runs after a failed step                            *)
BidDoneStamping(p, k, ok) ==
  LET task == passes[p].tasks[k]
      idx == task.aucs[task.i]
      loaded == [passes[p].loaded EXCEPT ![idx].bidPlaced = nowStr]
      r == BidLoop(timers, bidTimeouts, loaded, task, task.i + 1, p)
      tasks == [passes[p].tasks EXCEPT ![k] = r.task]
  IN /\ task.pc = "bid"
     /\ Settles(ok, task.page)
     /\ Cardinality(Pending(r.timers)) <= MaxTimers
     /\ data' = [data EXCEPT !.auctions = MarkStored(@, loaded[idx].id)]
     /\ timers' = r.timers
     /\ bidTimeouts' = r.bidTimeouts
     /\ passes' = [passes EXCEPT ![p].loaded = loaded, ![p].tasks = tasks,
                                 ![p].status = PassStatus(@, tasks)]
     /\ UNCHANGED <<idAuction, placeBidSelector, now, browserMap, browsers, closers,
                    cancelled>>

(* line 231: the awaited placeBid settles, then the loop goes on *)
BidDone(p, k, ok) ==
  LET task == passes[p].tasks[k]
      idx == task.aucs[task.i]
      loaded == IF ok THEN [passes[p].loaded EXCEPT ![idx].bidPlaced = nowStr]
                ELSE passes[p].loaded
      r == BidLoop(timers, bidTimeouts, loaded, task, task.i + 1, p)
      tasks == [passes[p].tasks EXCEPT ![k] = r.task]
  IN /\ task.pc = "bid"
     /\ Settles(ok, task.page)
     /\ Cardinality(Pending(r.timers)) <= MaxTimers
     /\ data' = IF ok THEN [data EXCEPT !.auctions = MarkStored(@, loaded[idx].id)] ELSE data
     /\ timers' = r.timers
     /\ bidTimeouts' = r.bidTimeouts
     /\ passes' = [passes EXCEPT ![p].loaded = loaded, ![p].tasks = tasks,
                                 ![p].status = PassStatus(@, tasks)]
     /\ UNCHANGED <<idAuction, placeBidSelector, now, browserMap, browsers, closers, cancelled>>

(* lines 234-236: the timer callback starts placeBid *)
TimerFire(t) ==
  /\ timers[t].state = "armed"
  /\ timers[t].fireAt <= now
  /\ timers' = [timers EXCEPT ![t].state = "running"]
  /\ UNCHANGED <<idAuction, placeBidSelector, now, data, browserMap, browsers, bidTimeouts, passes, closers,
                 events, cancelled>>

(* line 235: the placeBid of a timer callback settles *)
TimerBidDone(t, ok) ==
  LET p == timers[t].pass
      idx == timers[t].idx
  IN /\ timers[t].state = "running"
     /\ Settles(ok, timers[t].page)
     /\ timers' = [timers EXCEPT ![t].state = "done"]
     /\ passes' = IF ok THEN [passes EXCEPT ![p].loaded[idx].bidPlaced = nowStr] ELSE passes
     /\ data' = IF ok THEN [data EXCEPT !.auctions = MarkStored(@, passes[p].loaded[idx].id)]
                ELSE data
     /\ UNCHANGED <<idAuction, placeBidSelector, now, browserMap, browsers, bidTimeouts, closers, cancelled>>

(* ------------------------------ stop-update ----------------------------- *)
(* variant of StopUpdate that also forgets the registered sessions *)
StopUpdateForgetting ==
  /\ events < MaxEvents
  /\ events' = events + 1
  /\ cancelled' = cancelled \cup
       { bidTimeouts[j].auctionId : j \in
           { h \in DOMAIN bidTimeouts : timers[bidTimeouts[h].timeoutId].state = "armed" } }
  /\ timers' = ClearTimers(timers, bidTimeouts)
  /\ bidTimeouts' = <<>>
  /\ browserMap' = <<>>
  /\ UNCHANGED <<idAuction, placeBidSelector, now, data, browsers, passes, closers>>

StopUpdate ==
  /\ events < MaxEvents
  /\ events' = events + 1
  /\ cancelled' = cancelled \cup
       { bidTimeouts[j].auctionId : j \in
           { h \in DOMAIN bidTimeouts : timers[bidTimeouts[h].timeoutId].state = "armed" } }
  /\ timers' = ClearTimers(timers, bidTimeouts)
  /\ bidTimeouts' = <<>>
  /\ UNCHANGED <<idAuction, placeBidSelector, now, data, browserMap, browsers, passes, closers>>

(* --------------------------- close-all-windows -------------------------- *)
(* lines 311-314, up to the first await browser.close() *)
CloseAllWindows ==
  /\ events < MaxEvents
  /\ events' = events + 1
  /\ LET keys == [j \in DOMAIN browserMap |-> browserMap[j].username]
     IN closers' = Append(closers,
          IF keys = <<>>
          THEN [keys |-> keys, i |-> 1, closing |-> 0, status |-> "done"]
          ELSE [keys |-> keys, i |-> 1, closing |-> browserMap[1].browser,
                status |-> "closing"])
  /\ UNCHANGED <<idAuction, placeBidSelector, now, data, browserMap, browsers, bidTimeouts, timers, passes, cancelled>>

(* lines 314-320: one browser.close() settles; the loop goes on, and after  *)
(* the last key every entry of browserMap is deleted.                       *)
CloseSettled(c) ==
  LET cl == closers[c]
      next == cl.i + 1
  IN /\ cl.status = "closing"
     /\ browsers' = [browsers EXCEPT ![cl.closing].open = FALSE]
     /\ IF next > Len(cl.keys)
        THEN /\ browserMap' = <<>>
             /\ closers' = [closers EXCEPT ![c].i = next, ![c].status = "done"]
        ELSE /\ UNCHANGED browserMap
             /\ closers' = [closers EXCEPT ![c].i = next,
                  ![c].status = IF HasEntry(browserMap, cl.keys[next])
                                THEN "closing" ELSE "rejected",
                  ![c].closing = IF HasEntry(browserMap, cl.keys[next])
                                 THEN Entry(browserMap, cl.keys[next]).browser ELSE 0]
     /\ UNCHANGED <<idAuction, placeBidSelector, now, data, bidTimeouts, timers, passes, events, cancelled>>

(* ------------------------------ save-auctions --------------------------- *)
(* the collections the table of the renderer sends: one cell edited, or one *)
(* row removed                                                              *)
Edits(auctions) ==
  { [auctions EXCEPT ![j].bidProxy = "0"] : j \in DOMAIN auctions }
  \cup { [auctions EXCEPT ![j].account = v] : j \in DOMAIN auctions, v \in {"", "u2"} }
  \cup { [auctions EXCEPT ![j].timeToBid = "bad"] : j \in DOMAIN auctions }
  \cup { SelectSeq(auctions, LAMBDA a : a.id # id) : id \in AuctionIds }

(* variant of SaveAuctions: saving the collection also clears the timers *)
SaveAuctionsResyncing(updatedAuctions) ==
  /\ events < MaxEvents
  /\ events' = events + 1
  /\ data' = [data EXCEPT !.auctions = updatedAuctions]
  /\ timers' = ClearTimers(timers, bidTimeouts)
  /\ bidTimeouts' = <<>>
  /\ UNCHANGED <<idAuction, placeBidSelector, now, browserMap, browsers, passes, closers, cancelled>>

SaveAuctions(updatedAuctions) ==
  /\ events < MaxEvents
  /\ events' = events + 1
  /\ data' = [data EXCEPT !.auctions = updatedAuctions]
  /\ UNCHANGED <<idAuction, placeBidSelector, now, browserMap, browsers, bidTimeouts, timers, passes, closers, cancelled>>

(* -------------------------------- the clock ----------------------------- *)
(* a timer that is due runs before the clock reaches the next hour *)
Tick ==
  /\ now < MaxNow
  /\ \A t \in DOMAIN timers : timers[t].state = "armed" => timers[t].fireAt > now
  /\ now' = now + 1
  /\ UNCHANGED <<idAuction, placeBidSelector, data, browserMap, browsers, bidTimeouts, timers, passes, closers,
                 events, cancelled>>

LaunchSettles ==
  \E p \in DOMAIN passes : \E k \in DOMAIN passes[p].tasks :
    \E outcome \in {"ok", "launchFail", "pageFail"} : LaunchDone(p, k, outcome)

LoginSettles ==
  \E p \in DOMAIN passes : \E k \in DOMAIN passes[p].tasks :
    \E ok \in BOOLEAN : LoginDone(p, k, ok)

BidSettles ==
  \E p \in DOMAIN passes : \E k \in DOMAIN passes[p].tasks :
    \E ok \in BOOLEAN : BidDone(p, k, ok)

TimerFires == \E t \in DOMAIN timers : TimerFire(t)

TimerBidSettles == \E t \in DOMAIN timers : \E ok \in BOOLEAN : TimerBidDone(t, ok)

CloseSettles == \E c \in DOMAIN closers : CloseSettled(c)

SaveAuctionsRequest ==
  \E updatedAuctions \in Edits(data.auctions) : SaveAuctions(updatedAuctions)

Next ==
  \/ ScheduleAll
  \/ LaunchSettles
  \/ LoginSettles
  \/ BidSettles
  \/ TimerFires
  \/ TimerBidSettles
  \/ StopUpdate
  \/ CloseAllWindows
  \/ CloseSettles
  \/ SaveAuctionsRequest
  \/ Tick

Spec == Init /\ [][Next]_vars

(* the same program started with account records of distinct usernames *)
InitUnique ==
  /\ Init
  /\ \A c1, c2 \in DOMAIN data.credentials :
       data.credentials[c1].username = data.credentials[c2].username => c1 = c2

SpecUnique == InitUnique /\ [][Next]_vars

(* Every awaited remote interaction settles (puppeteer bounds each by a     *)
(* timeout), the clock advances, and a due timer runs its callback.         *)
Fairness ==
  /\ WF_vars(LaunchSettles)
  /\ WF_vars(LoginSettles)
  /\ WF_vars(BidSettles)
  /\ WF_vars(TimerFires)
  /\ WF_vars(TimerBidSettles)
  /\ WF_vars(CloseSettles)
  /\ WF_vars(Tick)

SpecUniqueFair == SpecUnique /\ Fairness

(* the program started with a store whose first auction has a bid amount    *)
(* but no time (the time cell of the table was emptied), followed by an     *)
(* auction with a time                                                      *)
InitSkip ==
  /\ now = 0
  /\ data \in
       [credentials : {<<[username |-> "u1"], [username |-> "u2"]>>},
        auctions : { <<[id |-> 1, account |-> "u1", bidProxy |-> "5",
                        timeToBid |-> "", bidPlaced |-> ""], a2>> :
                     a2 \in [id : {2}, account : Usernames, bidProxy : {"5"},
                             timeToBid : {"h0", "h1"}, bidPlaced : {""}] }]
  /\ browserMap = <<>>
  /\ browsers = <<>>
  /\ bidTimeouts = <<>>
  /\ timers = <<>>
  /\ passes = <<>>
  /\ closers = <<>>
  /\ events = 0
  /\ cancelled = {}
  /\ idAuction = <<>>
  /\ placeBidSelector = <<>>

SpecSkip == InitSkip /\ [][Next]_vars

(* ----------------- the selector of placeBid, on its own ----------------- *)
(* the references placeBid is given: the default of the add form with       *)
(* digits, one with several separators, one already in upper case, and      *)
(* every string of at most MaxRefLen characters over a small alphabet       *)
Refs ==
  { <<"s", "t", "g", "/", "1", "2", "3", "4">>,
    <<"a", "/", "b", "/", "c">>,
    <<"S", "T", "G", "/", "1", "/">> }
  \cup UNION { [1..n -> {"s", "G", "/", "1"}] : n \in 0..MaxRefLen }

InitInputId ==
  /\ idAuction \in Refs
  /\ placeBidSelector = <<>>
  /\ now = 0
  /\ data = [credentials |-> <<>>, auctions |-> <<>>]
  /\ browserMap = <<>>
  /\ browsers = <<>>
  /\ bidTimeouts = <<>>
  /\ timers = <<>>
  /\ passes = <<>>
  /\ closers = <<>>
  /\ events = 0
  /\ cancelled = {}

(* lines 164-165 of placeBid *)
PlaceBidSelector ==
  /\ placeBidSelector = <<>>
  /\ placeBidSelector' = <<"#">> \o inputId(idAuction)
  /\ UNCHANGED <<idAuction, now, data, browserMap, browsers, bidTimeouts, timers,
                 passes, closers, events, cancelled>>

SpecInputId == InitInputId /\ [][PlaceBidSelector]_vars

(* ======================================================================== *)
(*                               properties                                 *)
(* ======================================================================== *)
Tasks == UNION { { <<p, k>> : k \in DOMAIN passes[p].tasks } : p \in DOMAIN passes }
TaskAt(pk) == passes[pk[1]].tasks[pk[2]]

(* the auction object a timer callback closes over *)
AuctionOf(t) == passes[timers[t].pass].loaded[timers[t].idx]
(* the auction object the awaited placeBid of a task works on *)
BidAuction(pk) == passes[pk[1]].loaded[TaskAt(pk).aucs[TaskAt(pk).i]]

(* a placeBid for auction id starts in this step *)
BidStarts(id) ==
  \/ \E t \in DOMAIN timers :
       /\ timers[t].state = "armed" /\ timers'[t].state = "running"
       /\ AuctionOf(t).id = id
  \/ \E p \in DOMAIN passes' : \E k \in DOMAIN passes'[p].tasks :
       LET new == passes'[p].tasks[k]
       IN /\ new.pc = "bid"
          /\ passes'[p].loaded[new.aucs[new.i]].id = id
          /\ \/ p \notin DOMAIN passes
             \/ passes[p].tasks[k].pc # "bid"
             \/ passes[p].tasks[k].i # new.i

(* the invocation p of fetch-auctions-data returns its collection in this step *)
Returns(p) ==
  /\ passes'[p].status = "returned"
  /\ p \in DOMAIN passes => passes[p].status = "running"

(* C1: no account username ever has more than one live (launched and not     *)
(* closed) automation session.                                               *)
C1_OneLiveSessionPerAccount ==
  \A u \in Usernames :
    Cardinality({ b \in DOMAIN browsers : browsers[b].open /\ browsers[b].username = u }) <= 1

(* C2: there is at most one live (armed, not fired, not cancelled) timer per *)
(* auction id.                                                               *)
C2_OneTimerPerAuction ==
  \A t1, t2 \in DOMAIN timers :
    ( /\ timers[t1].state = "armed" /\ timers[t2].state = "armed"
      /\ AuctionOf(t1).id = AuctionOf(t2).id ) => t1 = t2

(* C3: two placeBid executions, started by the immediate path or by a fired  *)
(* timer, are never in progress at once for the same account username.       *)
C3_NoConcurrentBidsPerAccount ==
  \A u \in Usernames :
    Cardinality({ pk \in Tasks : TaskAt(pk).pc = "bid" /\ TaskAt(pk).username = u })
    + Cardinality({ t \in DOMAIN timers : timers[t].state = "running"
                                           /\ timers[t].username = u }) <= 1

(* C4: once stop-update has returned, no bid attempt starts for an auction   *)
(* whose live timer it cleared, until fetch-auctions-data is invoked again.  *)
C4_NoBidAfterCancel ==
  [][\A id \in cancelled' : ~BidStarts(id)]_vars

(* C5: when a fetch-auctions-data invoked after every earlier one has        *)
(* finished returns, the armed timers are exactly those of its own inputs:   *)
(* every armed timer is its own, no auction it read has two of them, and     *)
(* each eligible auction it read whose account is configured and whose       *)
(* deadline is still ahead has one.                                          *)
C5_TimersOfSecondCall ==
  [][\A p \in DOMAIN passes' :
       (Returns(p) /\ p > 1 /\ passes'[p].alone /\ cancelled' = {}) =>
         /\ \A t \in DOMAIN timers' : timers'[t].state = "armed" => timers'[t].pass = p
         /\ \A j \in DOMAIN passes'[p].loaded :
              LET a == passes'[p].loaded[j]
                  own == { t \in DOMAIN timers' :
                             /\ timers'[t].state = "armed"
                             /\ timers'[t].pass = p /\ timers'[t].idx = j }
              IN /\ Cardinality(own) <= 1
                 /\ ( /\ Eligible(a)
                      /\ \E c \in DOMAIN data.credentials :
                           data.credentials[c].username = a.account
                      /\ ~newDate(a.timeToBid).nan
                      /\ newDate(a.timeToBid).val > now' ) => own # {}]_vars

(* C6: an auction whose bidProxy is not above 0 never gets a timer or a bid  *)
(* attempt, and a task whose account has no auction with a bidProxy above 0  *)
(* never launches, never logs in and never holds a page.                     *)
C6_IneligibleNeverScheduled ==
  /\ \A t \in DOMAIN timers : Eligible(AuctionOf(t))
  /\ \A pk \in Tasks :
       /\ TaskAt(pk).pc = "bid" => Eligible(BidAuction(pk))
       /\ \A j \in 1..Len(TaskAt(pk).aucs) :
            Eligible(passes[pk[1]].loaded[TaskAt(pk).aucs[j]])
       /\ ( \A j \in DOMAIN passes[pk[1]].loaded :
              passes[pk[1]].loaded[j].account = TaskAt(pk).username
                => ~Eligible(passes[pk[1]].loaded[j]) )
          => ( /\ TaskAt(pk).pc = "done" /\ TaskAt(pk).page = 0
               /\ ~TaskAt(pk).loginSkipped )

(* C6 witness: in one pass an account whose only auction has bidProxy "0"    *)
(* was skipped while the other account holds a page and has a timer or bid.  *)
C6_Witness ==
  \E pk1, pk2 \in Tasks :
    /\ pk1[1] = pk2[1]
    /\ TaskAt(pk1).aucs = <<>> /\ TaskAt(pk1).pc = "done" /\ TaskAt(pk1).page = 0
    /\ TaskAt(pk2).page # 0
    /\ \/ TaskAt(pk2).pc = "bid"
       \/ \E t \in DOMAIN timers : timers[t].pass = pk2[1] /\ timers[t].state = "armed"
    /\ \E j \in DOMAIN passes[pk1[1]].loaded :
         /\ passes[pk1[1]].loaded[j].account = TaskAt(pk1).username
         /\ ~Eligible(passes[pk1[1]].loaded[j])

(* C7: every auction the loop of handleUserBids classifies as due (its     *)
(* deadline is valid and not after the clock at that moment) has its        *)
(* placeBid awaited to completion or failure before the loop moves on, and  *)
(* fetch-auctions-data returns only when every task has finished its loop:  *)
(* no position the loop moves past without awaiting a bid holds a due       *)
(* auction, and at the return every task is at the end of its list.         *)
C7_ImmediateBidsDoneAtReturn ==
  [][\A p \in DOMAIN passes' :
       /\ Returns(p) =>
            \A k \in DOMAIN passes'[p].tasks :
              /\ passes'[p].tasks[k].pc = "done"
              /\ passes'[p].tasks[k].i = Len(passes'[p].tasks[k].aucs) + 1
       /\ \A k \in DOMAIN passes'[p].tasks :
            LET new == passes'[p].tasks[k]
                from == IF p \in DOMAIN passes
                        THEN IF passes[p].tasks[k].pc = "bid"
                             THEN passes[p].tasks[k].i + 1 ELSE passes[p].tasks[k].i
                        ELSE 1
            IN \A j \in from .. (new.i - 1) :
                 LET a == passes'[p].loaded[new.aucs[j]]
                 IN ~( /\ a.timeToBid # ""
                       /\ ~newDate(a.timeToBid).nan
                       /\ newDate(a.timeToBid).val <= now' )]_vars

(* C7 witness: an invocation has returned, and an auction it read with a    *)
(* deadline already reached carries the outcome of its immediate bid.       *)
C7_Witness ==
  \E pk \in Tasks :
    /\ passes[pk[1]].status = "returned"
    /\ \E j \in DOMAIN TaskAt(pk).aucs :
         LET a == passes[pk[1]].loaded[TaskAt(pk).aucs[j]]
         IN a.timeToBid = "h0" /\ a.bidPlaced # ""

(* C8: a timer armed for an auction with a valid deadline starts its bid at  *)
(* the deadline and never before it, and the invocation that armed it        *)
(* returns before the bid has been attempted.                                *)
C8_ArmedBidNotBeforeDeadline ==
  [][/\ \A t \in DOMAIN timers' :
          ( /\ timers'[t].state \in {"running", "done"}
            /\ ~newDate(passes'[timers'[t].pass].loaded[timers'[t].idx].timeToBid).nan )
          => newDate(passes'[timers'[t].pass].loaded[timers'[t].idx].timeToBid).val <= now'
     /\ \A p \in DOMAIN passes' :
          Returns(p) => \A t \in DOMAIN timers' :
                          timers'[t].pass = p => timers'[t].state \in {"armed", "cleared"}]_vars

(* C9: the registry entry of an account is never replaced by a different     *)
(* session: while the username stays registered its browser is the same.     *)
C9_SessionNeverReplaced ==
  [][\A u \in Usernames :
       (HasEntry(browserMap, u) /\ HasEntry(browserMap', u))
         => Entry(browserMap', u).browser = Entry(browserMap, u).browser]_vars

(* C10: ensureLoggedIn called on a session whose isLoggedIn is true starts   *)
(* no login and leaves the flag true: no task begins a login while the       *)
(* registered session of its account has isLoggedIn true, and isLoggedIn of  *)
(* a registered session never goes back from true to false.                  *)
C10_NoLoginWhenLoggedIn ==
  [][/\ \A p \in DOMAIN passes' : \A k \in DOMAIN passes'[p].tasks :
          LET new == passes'[p].tasks[k]
          IN ( /\ new.pc = "login"
               /\ (p \in DOMAIN passes => passes[p].tasks[k].pc # "login") )
             => ( /\ HasEntry(browserMap', new.username)
                  /\ ~Entry(browserMap', new.username).isLoggedIn
                  /\ HasEntry(browserMap, new.username)
                       => ~Entry(browserMap, new.username).isLoggedIn
                          \/ Entry(browserMap, new.username).browser
                               # Entry(browserMap', new.username).browser )
     /\ \A u \in Usernames :
          ( /\ HasEntry(browserMap, u) /\ Entry(browserMap, u).isLoggedIn
            /\ HasEntry(browserMap', u)
            /\ Entry(browserMap', u).browser = Entry(browserMap, u).browser )
          => Entry(browserMap', u).isLoggedIn]_vars

(* C10 witness: a later pass found the session of its account logged in,     *)
(* skipped the login and went on to bid or to arm a timer on that page.      *)
C10_Witness ==
  \E pk \in Tasks :
    /\ pk[1] > 1
    /\ TaskAt(pk).loginSkipped
    /\ HasEntry(browserMap, TaskAt(pk).username)
    /\ Entry(browserMap, TaskAt(pk).username).isLoggedIn
    /\ Entry(browserMap, TaskAt(pk).username).browser = TaskAt(pk).page
    /\ \/ TaskAt(pk).pc = "bid"
       \/ \E t \in DOMAIN timers : timers[t].pass = pk[1] /\ timers[t].page = TaskAt(pk).page

(* C11: no failure inside a scheduling pass propagates: no invocation of    *)
(* fetch-auctions-data ever rejects instead of returning its collection.    *)
C11_NoFailurePropagates ==
  \A p \in DOMAIN passes : passes[p].status # "rejected"

(* C12: when a placeBid fails, on the immediate path or in a timer callback, *)
(* the stored collection and the collection of the invocation stay as they  *)
(* were (no outcome for this auction, no change to any other), and on the   *)
(* immediate path the task does not fail: its loop goes on with the next    *)
(* auction of the account.                                                  *)
C12_FailedBidLeavesNoTrace ==
  [][/\ \A p \in DOMAIN passes : \A k \in DOMAIN passes[p].tasks :
          BidDone(p, k, FALSE) =>
            /\ data' = data
            /\ passes'[p].loaded = passes[p].loaded
            /\ \A q \in DOMAIN passes : passes'[q].loaded = passes[q].loaded
            /\ passes'[p].tasks[k].pc \in {"bid", "done"}
            /\ passes'[p].tasks[k].i > passes[p].tasks[k].i
     /\ \A t \in DOMAIN timers :
          TimerBidDone(t, FALSE) => data' = data /\ passes' = passes]_vars

(* C12 witness: an immediate bid failed although its browser is open, the   *)
(* auction carries no outcome in either collection, and the task went on.   *)
C12_Witness ==
  \E pk \in Tasks :
    /\ TaskAt(pk).i > 1
    /\ TaskAt(pk).page # 0 /\ browsers[TaskAt(pk).page].open
    /\ LET a == passes[pk[1]].loaded[TaskAt(pk).aucs[1]]
       IN /\ a.timeToBid = "h0" /\ a.bidPlaced = ""
          /\ \A j \in DOMAIN data.auctions : data.auctions[j].bidPlaced = ""
    /\ Len(passes) = 1 /\ closers = <<>> /\ now = 0

(* C13: whenever a placeBid reaches its end without error, the stored       *)
(* collection afterwards holds a record of that auction carrying the        *)
(* outcome timestamp, whatever was saved since the auction was read.        *)
C13_SuccessIsPersisted ==
  [][/\ \A p \in DOMAIN passes : \A k \in DOMAIN passes[p].tasks :
          BidDone(p, k, TRUE) =>
            \E j \in DOMAIN data'.auctions :
              /\ data'.auctions[j].id = BidAuction(<<p, k>>).id
              /\ data'.auctions[j].bidPlaced = nowStr
     /\ \A t \in DOMAIN timers :
          TimerBidDone(t, TRUE) =>
            \E j \in DOMAIN data'.auctions :
              /\ data'.auctions[j].id = AuctionOf(t).id
              /\ data'.auctions[j].bidPlaced = nowStr]_vars

(* C14: a failed login changes nothing in the registry (the session stays  *)
(* registered, its isLoggedIn is not set), the task does not fail, and its  *)
(* loop runs: every auction it passes has no time or gets a timer, and it   *)
(* stops only at an auction that is due, to bid on it, or at the end.       *)
C14_FailedLoginGoesOn ==
  [][\A p \in DOMAIN passes : \A k \in DOMAIN passes[p].tasks :
       LoginDone(p, k, FALSE) =>
         LET new == passes'[p].tasks[k]
             auction(j) == passes[p].loaded[new.aucs[j]]
         IN /\ browserMap' = browserMap
            /\ new.pc \in {"bid", "done"}
            /\ new.pc = "done" => new.i = Len(new.aucs) + 1
            /\ new.pc = "bid" =>
                 /\ ~newDate(auction(new.i).timeToBid).nan
                 /\ newDate(auction(new.i).timeToBid).val <= now
            /\ \A j \in 1..(new.i - 1) :
                 \/ auction(j).timeToBid = ""
                 \/ \E t \in DOMAIN timers' \ DOMAIN timers :
                      /\ timers'[t].pass = p /\ timers'[t].idx = new.aucs[j]
                      /\ timers'[t].state = "armed"]_vars

(* C14 witness: the only login on an open, registered session has failed    *)
(* (isLoggedIn is false) and its task is bidding or has armed a timer.      *)
C14_Witness ==
  \E pk \in Tasks :
    /\ Len(passes) = 1 /\ closers = <<>>
    /\ \A k \in DOMAIN passes[1].tasks :
         k # pk[2] => passes[1].tasks[k].username # TaskAt(pk).username
    /\ TaskAt(pk).page # 0 /\ browsers[TaskAt(pk).page].open
    /\ HasEntry(browserMap, TaskAt(pk).username)
    /\ Entry(browserMap, TaskAt(pk).username).browser = TaskAt(pk).page
    /\ ~Entry(browserMap, TaskAt(pk).username).isLoggedIn
    /\ \/ TaskAt(pk).pc = "bid"
       \/ /\ TaskAt(pk).pc = "done"
          /\ \E t \in DOMAIN timers : timers[t].pass = 1 /\ timers[t].page = TaskAt(pk).page

(* C15: stop-update empties bidTimeouts, leaves no listed timer armed, and  *)
(* leaves the registry, every browser and every isLoggedIn as they were.    *)
C15_StopUpdateFrame ==
  [][StopUpdate =>
       /\ bidTimeouts' = <<>>
       /\ \A j \in DOMAIN bidTimeouts :
            timers'[bidTimeouts[j].timeoutId].state # "armed"
       /\ browserMap' = browserMap
       /\ browsers' = browsers]_vars

(* C15 witness: stop-update has cleared an armed timer and the session that *)
(* armed it is still registered, open and logged in.                        *)
C15_Witness ==
  /\ cancelled # {}
  /\ bidTimeouts = <<>>
  /\ \E t \in DOMAIN timers :
       /\ timers[t].state = "cleared"
       /\ HasEntry(browserMap, timers[t].username)
       /\ Entry(browserMap, timers[t].username).browser = timers[t].page
       /\ Entry(browserMap, timers[t].username).isLoggedIn
       /\ browsers[timers[t].page].open

(* C16: when a close-all-windows invocation completes, the registry is      *)
(* empty and no launched browser is open.                                   *)
C16_CloseAllClosesEverything ==
  [][\A c \in DOMAIN closers' :
       ( /\ closers'[c].status = "done"
         /\ c \in DOMAIN closers => closers[c].status # "done" )
       => /\ browserMap' = <<>>
          /\ \A b \in DOMAIN browsers' : ~browsers'[b].open]_vars

(* C17: close-all-windows changes neither bidTimeouts nor any timer, and a  *)
(* timer callback whose placeBid settles on a closed browser changes        *)
(* neither the stored collection, nor the collection of its invocation,     *)
(* nor the browsers, nor the registry.                                      *)
C17_CloseLeavesTimers ==
  [][/\ (CloseAllWindows \/ CloseSettles) =>
          bidTimeouts' = bidTimeouts /\ timers' = timers
     /\ \A t \in DOMAIN timers : \A ok \in BOOLEAN :
          (TimerBidDone(t, ok) /\ ~browsers[timers[t].page].open) =>
            /\ data' = data /\ passes' = passes
            /\ browsers' = browsers /\ browserMap' = browserMap]_vars

(* C17 witness: after fetch-auctions-data and close-all-windows and nothing *)
(* else, a timer armed for hour 1 has fired, its bid has ended on the       *)
(* closed browser, and no auction carries an outcome.                       *)
C17_Witness ==
  /\ events = 2 /\ Len(passes) = 1 /\ Len(closers) = 1
  /\ closers[1].status = "done"
  /\ \E t \in DOMAIN timers :
       /\ timers[t].state = "done" /\ timers[t].fireAt = 1
       /\ ~browsers[timers[t].page].open
       /\ AuctionOf(t).bidPlaced = ""
  /\ \A j \in DOMAIN data.auctions : data.auctions[j].bidPlaced = ""

(* C20: an entry is in bidTimeouts exactly while its timer is armed: every  *)
(* entry names a timer that is armed, and every armed timer has an entry.   *)
C20_PendingIffArmed ==
  /\ \A j \in DOMAIN bidTimeouts : timers[bidTimeouts[j].timeoutId].state = "armed"
  /\ \A t \in DOMAIN timers :
       timers[t].state = "armed" => \E j \in DOMAIN bidTimeouts : bidTimeouts[j].timeoutId = t

(* no outcome of a pending launch fits the bounds of the model any more *)
LaunchBlocked ==
  /\ events = MaxEvents /\ Len(browsers) = MaxBrowsers
  /\ \E pk \in Tasks : TaskAt(pk).pc = "launch"

(* C18: when every awaited interaction settles, every invocation of         *)
(* fetch-auctions-data eventually returns its collection (unless the model  *)
(* has run out of launch outcomes).                                         *)
C18_EveryInvocationReturns ==
  \A p \in 1..MaxEvents :
    (Len(passes) >= p)
      ~> ((Len(passes) >= p /\ passes[p].status = "returned") \/ LaunchBlocked)

(* C19: the bid-input identifier is the reference in upper case with every  *)
(* '/' removed, in the original order, followed by '-place-bid-input':      *)
(* it ends with the suffix, holds no '/', has one character per character   *)
(* of the reference that is not '/', and the n-th such character of the     *)
(* reference appears in upper case at place n; 'stg/1234' gives             *)
(* 'STG1234-place-bid-input'.                                               *)
C19_InputIdNormalised ==
  placeBidSelector # <<>> =>
    LET id == Tail(placeBidSelector)
        body == SubSeq(id, 1, Len(id) - 1)
        kept(j) == Cardinality({ h \in 1..j : idAuction[h] # "/" })
    IN /\ placeBidSelector[1] = "#"
       /\ id[Len(id)] = "-place-bid-input"
       /\ \A i \in DOMAIN body : body[i] # "/"
       /\ Len(body) = kept(Len(idAuction))
       /\ \A j \in DOMAIN idAuction :
            idAuction[j] # "/" => body[kept(j)] = toUpperCaseChar(idAuction[j])
       /\ idAuction = <<"s", "t", "g", "/", "1", "2", "3", "4">>
            => id = <<"S", "T", "G", "1", "2", "3", "4", "-place-bid-input">>

(* C19 witness: the selector was derived for a reference with lower-case    *)
(* letters and more than one separator.                                     *)
C19_Witness ==
  /\ idAuction = <<"a", "/", "b", "/", "c">>
  /\ placeBidSelector = <<"#", "A", "B", "C", "-place-bid-input">>

(* C21: every entry of bidTimeouts names an auction that is in the stored   *)
(* collection with a bidProxy above 0 and a non-empty timeToBid.            *)
C21_PendingSubsetOfStore ==
  \A j \in DOMAIN bidTimeouts :
    \E h \in DOMAIN data.auctions :
      /\ data.auctions[h].id = bidTimeouts[j].auctionId
      /\ Eligible(data.auctions[h])
      /\ data.auctions[h].timeToBid # ""

(* C22: an auction without a time never has a timer and is never bid on,    *)
(* and the loop goes on after it: every position the loop leaves behind     *)
(* without awaiting a bid either has no time or has got a timer in that     *)
(* very step, and a task is done only at the end of its list.               *)
C22_EmptyDeadlineSkipped ==
  [][/\ \A t \in DOMAIN timers' :
          passes'[timers'[t].pass].loaded[timers'[t].idx].timeToBid # ""
     /\ \A p \in DOMAIN passes' : \A k \in DOMAIN passes'[p].tasks :
          LET new == passes'[p].tasks[k]
              auction(j) == passes'[p].loaded[new.aucs[j]]
              from == IF p \in DOMAIN passes
                      THEN IF passes[p].tasks[k].pc = "bid"
                           THEN passes[p].tasks[k].i + 1 ELSE passes[p].tasks[k].i
                      ELSE 1
          IN /\ new.pc = "bid" => auction(new.i).timeToBid # ""
             /\ new.pc = "done" => new.i = Len(new.aucs) + 1
             /\ \A j \in from .. (new.i - 1) :
                  \/ auction(j).timeToBid = ""
                  \/ \E t \in DOMAIN timers' \ DOMAIN timers :
                       timers'[t].pass = p /\ timers'[t].idx = new.aucs[j]]_vars

(* C22 witness: a task whose first auction has a bid amount and no time has *)
(* gone past it and is bidding on, or has armed a timer for, its second.    *)
C22_Witness ==
  \E pk \in Tasks :
    /\ TaskAt(pk).aucs = <<1, 2>>
    /\ Eligible(passes[pk[1]].loaded[1])
    /\ passes[pk[1]].loaded[1].timeToBid = ""
    /\ ~\E t \in DOMAIN timers : timers[t].idx = 1
    /\ \/ TaskAt(pk).pc = "bid" /\ TaskAt(pk).i = 2
       \/ \E t \in DOMAIN timers :
            timers[t].pass = pk[1] /\ timers[t].idx = 2 /\ timers[t].state = "armed"

(* C23: once an immediate bid of the latest fetch-auctions-data invocation  *)
(* has failed (its task has gone past an auction that was due and carries   *)
(* no outcome), no bid attempt for that auction starts until                *)
(* fetch-auctions-data is invoked again.                                    *)
C23_NoSecondAttemptAfterFailure ==
  [][\A p \in DOMAIN passes : \A k \in DOMAIN passes[p].tasks :
       \A j \in 1..(passes[p].tasks[k].i - 1) :
         LET a == passes[p].loaded[passes[p].tasks[k].aucs[j]]
         IN ( /\ p = Len(passes')
              /\ a.timeToBid = "h0"
              /\ a.bidPlaced = "" )
            => ~BidStarts(a.id)]_vars

(* C24: stop-update and fetch-auctions-data leave a timer whose callback is *)
(* running as it is; a running callback ends only by its placeBid settling, *)
(* and when that placeBid succeeds the auction object is stamped and so is  *)
(* its record in the stored collection, if the collection still holds it.   *)
C24_RunningBidNotInterrupted ==
  [][\A t \in DOMAIN timers :
       timers[t].state = "running" =>
         /\ (StopUpdate \/ ScheduleAll) => timers'[t] = timers[t]
         /\ timers'[t].state \in {"running", "done"}
         /\ timers'[t].state = "done" => \E ok \in BOOLEAN : TimerBidDone(t, ok)
         /\ TimerBidDone(t, TRUE) =>
              /\ passes'[timers[t].pass].loaded[timers[t].idx].bidPlaced = nowStr
              /\ \A j \in DOMAIN data.auctions :
                   ( /\ data.auctions[j].id = AuctionOf(t).id
                     /\ \A h \in 1..(j - 1) : data.auctions[h].id # AuctionOf(t).id )
                   => data'.auctions[j].bidPlaced = nowStr]_vars

(* C24 witness: stop-update came while one timer callback was running and   *)
(* another timer was armed: the armed one is cleared, the list is empty,    *)
(* and the callback is still running.                                       *)
C24_Witness ==
  /\ Len(passes) = 1 /\ bidTimeouts = <<>> /\ cancelled # {}
  /\ \E t1, t2 \in DOMAIN timers :
       /\ timers[t1].state = "running" /\ browsers[timers[t1].page].open
       /\ timers[t2].state = "cleared"

(* C25: the outcome timestamp plays no part in eligibility. An invocation   *)
(* of fetch-auctions-data takes every stored auction with a positive bid    *)
(* amount and an account among the credentials into the work of a task of   *)
(* that account, stamped or not; and a task goes past an auction whose     *)
(* deadline has passed, stamped or not, only by having awaited a placeBid   *)
(* for it.                                                                  *)
C25_StampedAuctionBidAgain ==
  [][/\ ScheduleAll =>
          \A j \in DOMAIN data.auctions : \A c \in DOMAIN data.credentials :
            ( /\ data.auctions[j].bidPlaced # ""
              /\ Eligible(data.auctions[j])
              /\ data.auctions[j].account # ""
              /\ data.auctions[j].account = data.credentials[c].username )
            => \E k \in DOMAIN passes'[Len(passes')].tasks :
                 LET task == passes'[Len(passes')].tasks[k]
                 IN /\ task.username = data.auctions[j].account
                    /\ \E i \in DOMAIN task.aucs : task.aucs[i] = j
     /\ \A p \in DOMAIN passes' : \A k \in DOMAIN passes'[p].tasks :
          LET task == passes'[p].tasks[k]
          IN \A i \in DOMAIN task.aucs :
               ( /\ passes'[p].loaded[task.aucs[i]].timeToBid = "h0"
                 /\ task.i > i
                 /\ (p > Len(passes) \/ passes[p].tasks[k].i <= i) )
               => /\ p <= Len(passes)
                  /\ passes[p].tasks[k].i = i
                  /\ passes[p].tasks[k].pc = "bid"]_vars

(* C25 witness: a task of the second invocation awaits placeBid for an      *)
(* auction that was loaded with its outcome timestamp already set (no other *)
(* task of that invocation works for the same account).                     *)
C25_Witness ==
  /\ Len(passes) = 2
  /\ \E k \in DOMAIN passes[2].tasks :
       LET task == passes[2].tasks[k]
       IN /\ task.pc = "bid"
          /\ passes[2].loaded[task.aucs[task.i]].bidPlaced # ""
          /\ passes[2].loaded[task.aucs[task.i]].timeToBid = "h0"
          /\ \A h \in DOMAIN passes[2].tasks :
               h # k => passes[2].tasks[h].username # task.username

(* C26: a timer keeps what the invocation that armed it captured: its       *)
(* page, its account and its auction object, whose id, account, bid amount  *)
(* and time never change. save-auctions changes neither the timers, nor the *)
(* list of timers, nor the captured collections; an armed timer stays armed *)
(* or fires, and is cleared only by stop-update or fetch-auctions-data.     *)
C26_ArmedBidKeepsCapturedData ==
  [][/\ \/ timers' = timers /\ bidTimeouts' = bidTimeouts /\ passes' = passes
        \/ ~SaveAuctionsRequest
     /\ \A t \in DOMAIN timers :
          /\ timers'[t].pass = timers[t].pass
          /\ timers'[t].idx = timers[t].idx
          /\ timers'[t].page = timers[t].page
          /\ timers'[t].username = timers[t].username
          /\ timers'[t].fireAt = timers[t].fireAt
          /\ LET a == passes[timers[t].pass].loaded[timers[t].idx]
                 b == passes'[timers[t].pass].loaded[timers[t].idx]
             IN /\ b.id = a.id
                /\ b.account = a.account
                /\ b.bidProxy = a.bidProxy
                /\ b.timeToBid = a.timeToBid
          /\ timers[t].state = "armed" =>
               /\ timers'[t].state \in {"armed", "running", "cleared"}
               /\ timers'[t].state = "cleared" => (StopUpdate \/ ScheduleAll)
               /\ timers'[t].state = "running" => TimerFire(t)]_vars

(* C26 witness: a timer is armed and due, still listed, with a positive     *)
(* captured bid amount, after the stored collection was edited so that it   *)
(* holds no record of that id with that account and that bid amount.        *)
C26_Witness ==
  \E t \in DOMAIN timers :
    /\ timers[t].state = "armed"
    /\ timers[t].fireAt <= now
    /\ \E j \in DOMAIN bidTimeouts : bidTimeouts[j].timeoutId = t
    /\ Eligible(AuctionOf(t))
    /\ \A j \in DOMAIN data.auctions :
         data.auctions[j].id = AuctionOf(t).id =>
           \/ data.auctions[j].bidProxy # AuctionOf(t).bidProxy
           \/ data.auctions[j].account # AuctionOf(t).account

(* C27: the outcome write of placeBid is one step of the main process.      *)
(* When a placeBid succeeds, of a task or of a timer, the stored collection *)
(* keeps its credentials, its length and every record as it was, except     *)
(* that the first record with the id of the auction bid on gets the time as *)
(* its bidPlaced; so the outcome another placeBid wrote before stays.       *)
C27_OutcomeWriteTouchesOneField ==
  [][\A id \in AuctionIds :
       ( \/ \E p \in DOMAIN passes : \E k \in DOMAIN passes[p].tasks :
              /\ passes[p].tasks[k].pc = "bid"
              /\ BidAuction(<<p, k>>).id = id
              /\ BidDone(p, k, TRUE)
         \/ \E t \in DOMAIN timers :
              /\ timers[t].state = "running"
              /\ AuctionOf(t).id = id
              /\ TimerBidDone(t, TRUE) )
       => /\ data'.credentials = data.credentials
          /\ Len(data'.auctions) = Len(data.auctions)
          /\ \A j \in DOMAIN data.auctions :
               IF data.auctions[j].id = id
                  /\ \A h \in 1..(j - 1) : data.auctions[h].id # id
               THEN data'.auctions[j] = [data.auctions[j] EXCEPT !.bidPlaced = nowStr]
               ELSE data'.auctions[j] = data.auctions[j]]_vars

(* C27 witness: the placeBid of one account has written its outcome to the  *)
(* store while a placeBid of another account, started by the same           *)
(* invocation, is in progress on an open page for a record that is in the   *)
(* store without an outcome.                                                *)
C27_Witness ==
  /\ Len(passes) = 1
  /\ \E j1, j2 \in DOMAIN data.auctions :
       /\ data.auctions[j1].bidPlaced # ""
       /\ passes[1].loaded[j1].bidPlaced # ""
       /\ data.auctions[j2].bidPlaced = ""
       /\ data.auctions[j1].account # data.auctions[j2].account
       /\ passes[1].loaded[j1].account = data.auctions[j1].account
       /\ passes[1].loaded[j2].account = data.auctions[j2].account
       /\ \/ \E k \in DOMAIN passes[1].tasks :
               /\ passes[1].tasks[k].pc = "bid"
               /\ passes[1].tasks[k].username = data.auctions[j2].account
               /\ BidAuction(<<1, k>>).id = data.auctions[j2].id
               /\ browsers[passes[1].tasks[k].page].open
          \/ \E t \in DOMAIN timers :
               /\ timers[t].state = "running"
               /\ timers[t].username = data.auctions[j2].account
               /\ AuctionOf(t).id = data.auctions[j2].id
               /\ browsers[timers[t].page].open

====
